---- MODULE Spec2Model ----
(***************************************************************************)
(* OCR scoring core of the CodeZip experiment scripts.                     *)
(*                                                                         *)
(* Two scripts score an OCR transcript (hypothesis) against the original   *)
(* source text (reference):                                                *)
(*   analyze_ocr_metrics.py : levenshtein_distance, simple_bleu and the    *)
(*       nested calculate_cer / calculate_wer / calculate_bleu /           *)
(*       calculate_exact_match_rate of main                                *)
(*   ocr_and_compare.py     : calculate_metrics (with its nested lev_dist) *)
(*       and the line matching at the end of main                          *)
(*                                                                         *)
(* A text is a sequence of one-character strings.  A call is one action:   *)
(* it takes the pair (ref, hyp) of the state and leaves the value the      *)
(* call returns, or the exception it raises, in out.  libm_rounds_up holds  *)
(* the floats that, on the build that runs the call, come out above the    *)
(* real value where the rounding inside libm decides the result: "exp" for *)
(* the brevity penalty, "geo_mean" for the geometric mean.                 *)
(*                                                                         *)
(* ocr_and_compare.py also holds ocr_image, the retry loop around the      *)
(* vision API.  Its state is the record ocr; each pass of the loop, with   *)
(* the response the API gives to it, is one action.                        *)
(*                                                                         *)
(* data_miner.py holds fetch_fresh_code, which collects one file from each *)
(* of up to LIMIT repositories.  Its state is the record miner; the search *)
(* with the building of the candidate pool, the shuffle, and the mining of *)
(* each candidate repository are one action each.                          *)
(***************************************************************************)
EXTENDS Integers, Sequences, FiniteSets

VARIABLES ref, hyp, op, out, ocr, miner, libm_rounds_up

vars == <<ref, hyp, op, out, ocr, miner, libm_rounds_up>>

(***************************************************************************)
(* Bounds of the checked instances.                                        *)
(***************************************************************************)
\* longest reference / hypothesis text of Spec, in characters
MaxLen == 3
\* longest text of SpecRoundTrip (reference = hypothesis), in characters
MaxRoundTripLen == 7
\* most words of a text of SpecWords
MaxWords == 5
\* fewest and most words of a long reference of SpecBleu
MinLongRefWords == 700
MaxLongRefWords == 748
\* most words of the hypothesis scored against a long reference
MaxLongHypWords == 1
\* fewest and most words of a reference of SpecBleu so long against a
\* hypothesis of eight words that the brevity penalty is a subnormal double
MinTinyRefWords == 5960
MaxTinyRefWords == 5970
\* largest max_retries given to ocr_image
MaxRetries == 3
\* longest content of an API response, in characters and box markers
MaxResponseLen == 1
\* most repositories the search of fetch_fresh_code yields, with
\* ENABLE_RANDOM off and on
MaxFound == 51
MaxFoundShuffled == 6
\* the repositories of a search repeat their contents with this period
WorldPeriod == 2

Alphabet == {"a", "b", " ", "\n"}
Vocabulary == {"a", "b"}

RECURSIVE Texts(_)
Texts(n) ==
    IF n = 0 THEN {<<>>}
    ELSE LET shorter == Texts(n - 1)
         IN  shorter \cup {Append(t, c) : t \in {u \in shorter : Len(u) = n - 1}, c \in Alphabet}

(***************************************************************************)
(* Python built-ins on str and list.                                       *)
(***************************************************************************)
Min(a, b) == IF a <= b THEN a ELSE b
Max(a, b) == IF a >= b THEN a ELSE b

\* str.isspace of one character of the alphabet
IsSpace(c) == c \in {" ", "\n"}

\* the words of s[lo..hi], scanned left to right; cur is the word being read
RECURSIVE splitScan(_, _, _, _, _)
splitScan(s, i, hi, cur, acc) ==
    IF i > hi THEN (IF cur = <<>> THEN acc ELSE Append(acc, cur))
    ELSE IF IsSpace(s[i])
         THEN splitScan(s, i + 1, hi, <<>>, IF cur = <<>> THEN acc ELSE Append(acc, cur))
         ELSE splitScan(s, i + 1, hi, Append(cur, s[i]), acc)

\* the words of s[lo..hi]; a long range is halved, and a word that runs
\* across the cut is put together again
RECURSIVE splitRange(_, _, _)
splitRange(s, lo, hi) ==
    IF hi - lo < 16 THEN splitScan(s, lo, hi, <<>>, <<>>)
    ELSE LET mid == (lo + hi) \div 2
             L == splitRange(s, lo, mid)
             R == splitRange(s, mid + 1, hi)
         IN  IF ~IsSpace(s[mid]) /\ ~IsSpace(s[mid + 1])
             THEN SubSeq(L, 1, Len(L) - 1) \o <<L[Len(L)] \o R[1]>> \o Tail(R)
             ELSE L \o R

\* str.split(): the maximal runs of non-whitespace characters
split(s) == splitRange(s, 1, Len(s))

\* str.splitlines(): the lines of s without their line breaks; a final line
\* break opens no further line
RECURSIVE splitlinesScan(_, _, _, _)
splitlinesScan(s, i, cur, acc) ==
    IF i > Len(s) THEN (IF cur = <<>> THEN acc ELSE Append(acc, cur))
    ELSE IF s[i] = "\n"
         THEN splitlinesScan(s, i + 1, <<>>, Append(acc, cur))
         ELSE splitlinesScan(s, i + 1, Append(cur, s[i]), acc)

splitlines(s) == splitlinesScan(s, 1, <<>>, <<>>)

\* str.strip(): s without its leading and trailing whitespace
strip(s) ==
    LET keep == {i \in 1..Len(s) : ~IsSpace(s[i])}
    IN  IF keep = {} THEN <<>>
        ELSE LET first == CHOOSE i \in keep : \A j \in keep : i <= j
                 last == CHOOSE i \in keep : \A j \in keep : j <= i
             IN  SubSeq(s, first, last)

\* words joined by single spaces: " ".join(words)
RECURSIVE Join(_)
Join(words) ==
    IF words = <<>> THEN <<>>
    ELSE IF Len(words) = 1 THEN words[1]
    ELSE words[1] \o <<" ">> \o Join(Tail(words))

\* the exception int / int raises on a zero divisor
ZeroDivisionError == [error |-> "ZeroDivisionError"]

IsError(v) == DOMAIN v = {"error"}

\* a / b * 100 as the exact fraction num / den, or the exception
Percent(a, b) == IF b = 0 THEN ZeroDivisionError ELSE [num |-> a * 100, den |-> b]

\* two percentages are the same number
SamePercent(p, q) ==
    IF IsError(p) \/ IsError(q) THEN IsError(p) /\ IsError(q)
    ELSE p.num * q.den = q.num * p.den

(***************************************************************************)
(* analyze_ocr_metrics.py: levenshtein_distance                            *)
(***************************************************************************)
\* a slip of line 32: previous_row[j + 1] for previous_row[j]
substitutions_next_column(previous_row, j, c1, c2) ==
    previous_row[j + 1] + (IF c1 # c2 THEN 1 ELSE 0)

\* a slip of line 32: a substitution counted twice
substitutions_cost_two(previous_row, j, c1, c2) ==
    previous_row[j] + (IF c1 # c2 THEN 2 ELSE 0)

\* line 32: previous_row[j] + (c1 != c2); rows are 1-based here
substitutions(previous_row, j, c1, c2) ==
    previous_row[j] + (IF c1 # c2 THEN 1 ELSE 0)

\* lines 29-33: the inner loop, j = 1..Len(s2), extending current_row until
\* it has an entry for every prefix of s2
RECURSIVE inner_loop(_, _, _, _, _)
inner_loop(previous_row, current_row, c1, s2, j) ==
    IF Len(current_row) = Len(s2) + 1 THEN current_row
    ELSE LET insertions == previous_row[j + 1] + 1
             deletions == current_row[j] + 1
             subst == substitutions(previous_row, j, c1, s2[j])
         IN  inner_loop(previous_row,
                        Append(current_row, Min(insertions, Min(deletions, subst))),
                        c1, s2, j + 1)

\* lines 26-34: previous_row after i rounds of the outer loop.  It starts as
\* range(len(s2) + 1); in round i current_row starts as [i + 1] for Python's
\* 0-based i, that is <<i>> for the 1-based i here
RECURSIVE outer_loop(_, _, _)
outer_loop(s1, s2, i) ==
    IF i = 0 THEN [k \in 1..(Len(s2) + 1) |-> k - 1]
    ELSE inner_loop(outer_loop(s1, s2, i - 1), <<i>>, s1[i], s2, 1)

\* lines 23-36, reached with len(s1) >= len(s2)
levenshtein_rows(s1, s2) ==
    IF Len(s2) = 0 THEN Len(s1)
    ELSE LET previous_row == outer_loop(s1, s2, Len(s1))
         IN  previous_row[Len(previous_row)]

\* lines 18-36
levenshtein_distance(s1, s2) ==
    IF Len(s1) < Len(s2) THEN levenshtein_rows(s2, s1) ELSE levenshtein_rows(s1, s2)

\* a slip of lines 216-219: an empty reference scored as 0 percent
calculate_cer_guarded(reference, hypothesis) ==
    LET lev_dist == levenshtein_distance(reference, hypothesis)
    IN  [cer |-> Percent(lev_dist, Max(1, Len(reference))), lev_dist |-> lev_dist]

\* lines 216-219: calculate_cer, nested in main
calculate_cer(reference, hypothesis) ==
    LET lev_dist == levenshtein_distance(reference, hypothesis)
        cer == Percent(lev_dist, Len(reference))
    IN  IF IsError(cer) THEN ZeroDivisionError
        ELSE [cer |-> cer, lev_dist |-> lev_dist]

\* lines 227-232: calculate_wer, nested in main
calculate_wer(reference, hypothesis) ==
    LET ref_words == split(reference)
        hyp_words == split(hypothesis)
        lev_dist == levenshtein_distance(ref_words, hyp_words)
        wer == Percent(lev_dist, Len(ref_words))
    IN  IF IsError(wer) THEN ZeroDivisionError
        ELSE [wer |-> wer, lev_dist |-> lev_dist]

(***************************************************************************)
(* Floating-point values of the BLEU computation, kept symbolic.           *)
(*   a precision matches / total is the reduced fraction <<m, t>>          *)
(*   a score is 0, or scale * exp(num / den) * (p1 p2 p3 p4)^(1/4), the    *)
(*   second factor being exp(sum(log(p)) / 4)                              *)
(***************************************************************************)
RECURSIVE GCD(_, _)
GCD(a, b) == IF b = 0 THEN a ELSE GCD(b, a % b)

\* the float a / b, for a >= 0 and b > 0
Fraction(a, b) == LET g == GCD(a, b) IN <<a \div g, b \div g>>

\* a local that was never assigned
Unevaluated == [unevaluated |-> TRUE]

\* the float 1.0 of line 75
One == [zero |-> FALSE, num |-> 0, den |-> 1]

\* The doubles under 2^-1022 are the multiples of 2^-1074, and math.exp
\* gives the nearest one: math.exp(x) >= j * 2^-1074 when x is at least
\* ln(j - 1/2) - 1074 ln 2.  The argument x = 1 - r / h is a float too: for
\* 512 <= r / h < 1024 the quotient is rounded to a multiple of 2^-43 and
\* the subtraction is exact.  So math.exp(1 - r / h) >= j * 2^-1074 exactly
\* when r / h < C / 2^44 (or r / h = C / 2^44 and the tie rounds down), C
\* being the odd number next to (1 + 1075 ln 2 - ln(2 j - 1)) * 2^44.  That
\* logarithm is computed here in fixed point.
\*
\* A fixed-point number is <<integer part, d1, ..., d7>>, the d's being the
\* digits of its fraction in base 2048.
Fixed(n) == <<n, 0, 0, 0, 0, 0, 0, 0>>

\* ln 2, cut after the seventh digit
ln_2 == <<0, 1419, 1157, 2031, 1308, 1980, 1711, 316>>

\* 1 + 1075 ln 2, cut after the seventh digit
one_plus_1075_ln_2 == <<746, 272, 1705, 844, 163, 1526, 387, 229>>

\* x * p from digit i on, for an integer p >= 0, with the carry into digit
\* i - 1
RECURSIVE times_from(_, _, _)
times_from(x, p, i) ==
    IF i > Len(x) THEN [carry |-> 0, digits |-> <<>>]
    ELSE LET rest == times_from(x, p, i + 1)
             v == x[i] * p + rest.carry
         IN  [carry |-> v \div 2048, digits |-> <<v % 2048>> \o rest.digits]

times_small(x, p) ==
    LET rest == times_from(x, p, 2)
    IN  <<x[1] * p + rest.carry>> \o rest.digits

\* x / q from digit i on, cut after the last digit, for an integer q > 0,
\* r being what of the digits before is still to divide
RECURSIVE over_from(_, _, _, _)
over_from(x, q, i, r) ==
    IF i > Len(x) THEN <<>>
    ELSE LET v == r * 2048 + x[i]
         IN  <<v \div q>> \o over_from(x, q, i + 1, v % q)

over_small(x, q) == over_from(x, q, 1, 0)

\* x + sign * y from digit i on, with the carry into digit i - 1
RECURSIVE plus_from(_, _, _, _)
plus_from(x, sign, y, i) ==
    IF i > Len(x) THEN [carry |-> 0, digits |-> <<>>]
    ELSE LET rest == plus_from(x, sign, y, i + 1)
             v == x[i] + sign * y[i] + rest.carry
         IN  [carry |-> IF v < 0 THEN -1 ELSE v \div 2048,
              digits |-> <<v % 2048>> \o rest.digits]

plus(x, y) ==
    LET rest == plus_from(x, 1, y, 2)
    IN  <<x[1] + y[1] + rest.carry>> \o rest.digits

\* x - y, for x >= y
minus(x, y) ==
    LET rest == plus_from(x, -1, y, 2)
    IN  <<x[1] - y[1] + rest.carry>> \o rest.digits

\* z / (2 i + 1) + z^3 / (2 i + 3) + ..., for z = p / q and w the power of
\* z of the first term; the terms are cut after the seventh digit and the
\* sum ends with the first term that is cut to nothing
RECURSIVE atanh_from(_, _, _, _)
atanh_from(w, p, q, i) ==
    IF w = Fixed(0) THEN Fixed(0)
    ELSE plus(over_small(w, 2 * i + 1),
              atanh_from(over_small(times_small(over_small(times_small(w, p), q), p), q),
                         p, q, i + 1))

\* atanh(p / q) = ln((q + p) / (q - p)) / 2, for 0 <= p < q
atanh(p, q) == atanh_from(over_small(Fixed(p), q), p, q, 0)

\* the e with 2^e <= n < 2^(e + 1)
RECURSIVE log2(_)
log2(n) == IF n < 2 THEN 0 ELSE 1 + log2(n \div 2)

RECURSIVE power_of_2(_)
power_of_2(e) == IF e = 0 THEN 1 ELSE 2 * power_of_2(e - 1)

\* 1 + 1075 ln 2 - ln(2 j - 1) = 1 - (ln(j - 1/2) - 1074 ln 2), j >= 1, off by
\* less than 64 units of the seventh digit: the 2 j - 1 is taken as a power
\* of 2 times (q + p) / (q - p)
exp_step(j) ==
    LET n == 2 * j - 1
        e == log2(n)
        low == power_of_2(e)
        high == 2 * low
    IN  IF 2 * n < 3 * low
        THEN LET t == atanh(n - low, n + low)
             IN  minus(minus(one_plus_1075_ln_2, times_small(ln_2, e)), plus(t, t))
        ELSE LET t == atanh(high - n, n + high)
             IN  plus(minus(one_plus_1075_ln_2, times_small(ln_2, e + 1)), plus(t, t))

\* a / b against step[1] + 0.step[i] step[i+1] ... in base 2048, r being
\* what of a is still to divide
RECURSIVE compare_digits(_, _, _, _)
compare_digits(r, b, step, i) ==
    IF i > Len(step) THEN IF r > 0 THEN "above" ELSE "equal"
    ELSE LET digit == (r * 2048) \div b
         IN  IF digit > step[i] THEN "above"
             ELSE IF digit < step[i] THEN "below"
             ELSE compare_digits((r * 2048) % b, b, step, i + 1)

compare_quotient(a, b, step) ==
    IF a \div b > step[1] THEN "above"
    ELSE IF a \div b < step[1] THEN "below"
    ELSE compare_digits(a % b, b, step, 2)

\* the error of exp_step, in units of the seventh digit
margin == <<0, 0, 0, 0, 0, 0, 0, 64>>

\* a / b is under the odd multiple of 2^-44 next to u: on the tie the
\* quotient is rounded to the even multiple of 2^-43
quotient_under(a, b, u) ==
    LET step == <<u[1], u[2], u[3], u[4], (u[5] \div 2) * 2 + 1>>
        c == compare_quotient(a, b, step)
    IN  c = "below" \/ (c = "equal" /\ step[5] % 4 = 1)

\* math.exp(1 - a / b) >= j * 2^-1074.  An argument nearer than 2^-71 to
\* the step is nearer to it than math.exp is accurate: the rounding
\* inside math.exp decides.
exp_at_least(a, b, j) ==
    LET u == exp_step(j)
        low == quotient_under(a, b, minus(u, margin))
        high == quotient_under(a, b, plus(u, margin))
    IN  IF low = high THEN low ELSE "exp" \in libm_rounds_up

\* math.exp(1 - r / h) for the fraction 1 - r / h = n / d, d > 0, n <= 0;
\* it is 0.0 when it is nearer to 0 than to 2^-1074
math_exp(n, d) ==
    [zero |-> ~exp_at_least(d - n, d, 1), num |-> n \div GCD(0 - n, d), den |-> d \div GCD(0 - n, d)]

ZeroScore == [zero |-> TRUE, num |-> 0, den |-> 1, ps |-> <<>>, scale |-> 1]

RECURSIVE Product(_, _)
Product(ps, i) == IF ps = <<>> THEN 1 ELSE ps[1][i] * Product(Tail(ps), i)

\* the largest m with m * geo_mean <= 1/2, from m on: geo_mean is the
\* fourth root of the product of the fractions ps
RECURSIVE halves(_, _)
halves(ps, m) ==
    IF 16 * (m + 1) * (m + 1) * (m + 1) * (m + 1) * Product(ps, 1) <= Product(ps, 2)
    THEN halves(ps, m + 1)
    ELSE m

\* bp * geo_mean.  The product of a bp of k * 2^-1074 is rounded to the
\* nearest multiple of 2^-1074, to 0.0 when k * geo_mean <= 1/2.  When the
\* real geometric mean is 1 / (2 k) exactly, the rounding of the float
\* geo_mean decides.
Times(bp, geo_mean) ==
    IF bp.zero \/ geo_mean.zero THEN ZeroScore
    ELSE LET m == halves(geo_mean.ps, 0)
             a == bp.den - bp.num
             product == [zero |-> FALSE, num |-> bp.num, den |-> bp.den,
                         ps |-> geo_mean.ps, scale |-> 1]
             tie == 16 * m * m * m * m * Product(geo_mean.ps, 1) = Product(geo_mean.ps, 2)
         IN  IF m = 0 THEN product
             ELSE IF exp_at_least(a, bp.den, m + 1) THEN product
             ELSE IF tie /\ exp_at_least(a, bp.den, m) /\ "geo_mean" \in libm_rounds_up
                  THEN product
             ELSE ZeroScore

\* score * 100
Times100(score) ==
    IF score.zero THEN ZeroScore
    ELSE [score EXCEPT !.scale = 100 * @]

(***************************************************************************)
(* collections.Counter                                                     *)
(***************************************************************************)
\* Counter(list): each element with the number of times it occurs
Counter(seq) ==
    [x \in {seq[i] : i \in DOMAIN seq} |-> Cardinality({i \in DOMAIN seq : seq[i] = x})]

\* c1 & c2: the minimum of the two counts, for the elements of both
CounterAnd(c1, c2) ==
    [x \in (DOMAIN c1) \cap (DOMAIN c2) |-> Min(c1[x], c2[x])]

\* sum(c.values())
RECURSIVE SumOver(_, _)
SumOver(c, keys) ==
    IF keys = {} THEN 0
    ELSE LET k == CHOOSE x \in keys : TRUE IN c[k] + SumOver(c, keys \ {k})

SumValues(c) == SumOver(c, DOMAIN c)

(***************************************************************************)
(* analyze_ocr_metrics.py: simple_bleu                                     *)
(***************************************************************************)
\* line 40: the default of max_n
max_n == 4

\* a slip of lines 55, 56: range(len(words)-n), the last n-gram lost
ngrams_one_short(words, n) ==
    [i \in 1..(Len(words) - n) |-> SubSeq(words, i, i + n - 1)]

\* lines 55, 56: [tuple(words[i:i+n]) for i in range(len(words)-n+1)]
ngrams(words, n) ==
    [i \in 1..(Len(words) - n + 1) |-> SubSeq(words, i, i + n - 1)]

\* lines 55-64: the modified n-gram precision of order n
ngram_precision(ref_words, hyp_words, n) ==
    LET ref_ngrams == Counter(ngrams(ref_words, n))
        hyp_ngrams == Counter(ngrams(hyp_words, n))
        matches == SumValues(CounterAnd(ref_ngrams, hyp_ngrams))
        total == SumValues(hyp_ngrams)
    IN  [matches |-> matches, total |-> total,
         precision |-> IF total = 0 THEN <<0, 1>> ELSE Fraction(matches, total)]

\* lines 69-72
geometric_mean(precisions) ==
    IF \E n \in DOMAIN precisions : precisions[n].precision[1] = 0
    THEN [zero |-> TRUE, ps |-> <<>>]
    ELSE [zero |-> FALSE, ps |-> [n \in DOMAIN precisions |-> precisions[n].precision]]

\* a slip of line 75: the exponent with its sign turned
brevity_penalty_inverted(len_ref, len_hyp) ==
    IF len_hyp >= len_ref THEN One
    ELSE IF len_hyp = 0 THEN ZeroDivisionError
    ELSE [zero |-> FALSE, num |-> len_ref - len_hyp, den |-> len_hyp]

\* line 75; the division raises when len(hyp_words) is 0
brevity_penalty(len_ref, len_hyp) ==
    IF len_hyp >= len_ref THEN One
    ELSE IF len_hyp = 0 THEN ZeroDivisionError
    ELSE math_exp(len_hyp - len_ref, len_hyp)

\* a slip of line 49: the early return never taken
hyp_is_empty_ignored(hyp_words) == FALSE

\* line 49: if not hyp_words
hyp_is_empty(hyp_words) == hyp_words = <<>>

\* lines 40-77: the locals of simple_bleu when it ends, and what it returns
\* (result) or raises
simple_bleu_frame(reference, hypothesis) ==
    LET ref_words == split(reference)
        hyp_words == split(hypothesis)
    IN  IF hyp_is_empty(hyp_words)
        THEN [result |-> ZeroScore, precisions |-> <<>>, bp |-> Unevaluated]
        ELSE LET precisions == [n \in 1..max_n |-> ngram_precision(ref_words, hyp_words, n)]
                 geo_mean == geometric_mean(precisions)
                 bp == brevity_penalty(Len(ref_words), Len(hyp_words))
             IN  [result |-> IF IsError(bp) THEN ZeroDivisionError ELSE Times(bp, geo_mean),
                  precisions |-> precisions, bp |-> bp]

simple_bleu(reference, hypothesis) == simple_bleu_frame(reference, hypothesis).result

\* lines 240-241: calculate_bleu, nested in main
calculate_bleu(reference, hypothesis) == simple_bleu(reference, hypothesis)

\* lines 249-263: calculate_exact_match_rate, nested in main
line_at(lines, i) == IF i <= Len(lines) THEN lines[i] ELSE <<>>

calculate_exact_match_rate(reference, hypothesis) ==
    LET ref_lines == splitlines(reference)
        hyp_lines == splitlines(hypothesis)
        max_len == Max(Len(ref_lines), Len(hyp_lines))
        matches == Cardinality({i \in 1..max_len :
                        strip(line_at(ref_lines, i)) = strip(line_at(hyp_lines, i))})
        rate == Percent(matches, max_len)
    IN  IF IsError(rate) THEN ZeroDivisionError
        ELSE [rate |-> rate, matches |-> matches, max_len |-> max_len]

(***************************************************************************)
(* ocr_and_compare.py: calculate_metrics and the line matching of main     *)
(***************************************************************************)
\* a slip of line 98: the comparison of the two elements dropped
lev_substitutions_uncompared(previous_row, j, c1, c2) ==
    previous_row[j] + 1

\* line 98
lev_substitutions(previous_row, j, c1, c2) ==
    previous_row[j] + (IF c1 # c2 THEN 1 ELSE 0)

\* lines 95-99
RECURSIVE lev_inner_loop(_, _, _, _, _)
lev_inner_loop(previous_row, current_row, c1, s2, j) ==
    IF Len(current_row) = Len(s2) + 1 THEN current_row
    ELSE LET insertions == previous_row[j + 1] + 1
             deletions == current_row[j] + 1
             subst == lev_substitutions(previous_row, j, c1, s2[j])
         IN  lev_inner_loop(previous_row,
                            Append(current_row, Min(insertions, Min(deletions, subst))),
                            c1, s2, j + 1)

\* lines 92-100: previous_row after i rounds of the outer loop
RECURSIVE lev_outer_loop(_, _, _)
lev_outer_loop(s1, s2, i) ==
    IF i = 0 THEN [k \in 1..(Len(s2) + 1) |-> k - 1]
    ELSE lev_inner_loop(lev_outer_loop(s1, s2, i - 1), <<i>>, s1[i], s2, 1)

\* lines 90-101, reached with len(s1) >= len(s2)
lev_rows(s1, s2) ==
    IF Len(s2) = 0 THEN Len(s1)
    ELSE LET previous_row == lev_outer_loop(s1, s2, Len(s1))
         IN  previous_row[Len(previous_row)]

\* lines 87-101: lev_dist, nested in calculate_metrics
lev_dist(s1, s2) ==
    IF Len(s1) < Len(s2) THEN lev_rows(s2, s1) ELSE lev_rows(s1, s2)

\* a slip of lines 117, 118: range(len(words)-n), the last n-gram lost
metrics_ngrams_one_short(words, n) ==
    [i \in 1..(Len(words) - n) |-> SubSeq(words, i, i + n - 1)]

\* lines 117, 118
metrics_ngrams(words, n) ==
    [i \in 1..(Len(words) - n + 1) |-> SubSeq(words, i, i + n - 1)]

\* lines 117-121
metrics_precision(ref_words, hyp_words, n) ==
    LET ref_ngrams == Counter(metrics_ngrams(ref_words, n))
        hyp_ngrams == Counter(metrics_ngrams(hyp_words, n))
        matches == SumValues(CounterAnd(ref_ngrams, hyp_ngrams))
        total == SumValues(hyp_ngrams)
    IN  [matches |-> matches, total |-> total,
         precision |-> IF total > 0 THEN Fraction(matches, total) ELSE <<0, 1>>]

\* line 127; the division raises when len(hyp_words) is 0
metrics_brevity_penalty(len_ref, len_hyp) ==
    IF len_hyp >= len_ref THEN One
    ELSE IF len_hyp = 0 THEN ZeroDivisionError
    ELSE math_exp(len_hyp - len_ref, len_hyp)

\* lines 115-128: the BLEU part of calculate_metrics
metrics_bleu(ref_words, hyp_words) ==
    LET precisions == [n \in 1..4 |-> metrics_precision(ref_words, hyp_words, n)]
    IN  IF \E n \in 1..4 : precisions[n].precision[1] = 0
        THEN [bleu |-> ZeroScore, precisions |-> precisions, bp |-> Unevaluated]
        ELSE LET geo_mean == [zero |-> FALSE,
                              ps |-> [n \in 1..4 |-> precisions[n].precision]]
                 bp == metrics_brevity_penalty(Len(ref_words), Len(hyp_words))
             IN  [bleu |-> IF IsError(bp) THEN ZeroDivisionError
                           ELSE Times100(Times(bp, geo_mean)),
                  precisions |-> precisions, bp |-> bp]

\* lines 85-130: what calculate_metrics returns (cer, wer, bleu) with the
\* locals of its BLEU part, or the exception it raises
calculate_metrics(reference, hypothesis) ==
    LET cer == Percent(lev_dist(reference, hypothesis), Len(reference))
        ref_words == split(reference)
        hyp_words == split(hypothesis)
        wer == Percent(lev_dist(ref_words, hyp_words), Len(ref_words))
        b == metrics_bleu(ref_words, hyp_words)
    IN  IF IsError(cer) \/ IsError(wer) \/ IsError(b.bleu) THEN ZeroDivisionError
        ELSE [cer |-> cer, wer |-> wer, bleu |-> b.bleu,
              precisions |-> b.precisions, bp |-> b.bp]

\* lines 237-241: the line matching of main
line_matching(original_code, merged_ocr) ==
    LET ref_lines == splitlines(original_code)
        ocr_lines == splitlines(merged_ocr)
        matches == Cardinality({i \in 1..Min(Len(ref_lines), Len(ocr_lines)) :
                        strip(ref_lines[i]) = strip(ocr_lines[i])})
        total == Max(Len(ref_lines), Len(ocr_lines))
        emr == Percent(matches, total)
    IN  IF IsError(emr) THEN ZeroDivisionError
        ELSE [emr |-> emr, matches |-> matches, total |-> total]

(***************************************************************************)
(* ocr_image and fetch_fresh_code before they are called.                  *)
(***************************************************************************)
OcrNotCalled ==
    [pc |-> "not_called", max_retries |-> 0, attempt |-> 0,
     events |-> <<>>, responses |-> <<>>, result |-> <<>>]

MinerNotCalled ==
    [pc |-> "not_called", ENABLE_RANDOM |-> FALSE, found |-> 0, world |-> <<>>,
     candidate_repos |-> <<>>, processed |-> 0, dataset |-> <<>>]

(***************************************************************************)
(* data_miner.py: fetch_fresh_code                                         *)
(*   A repository is named by its rank in the search result.  What the     *)
(*   GitHub API says of it is miner.world: whether listing its contents    *)
(*   raises, and the files kept in files_to_check, each with its size,     *)
(*   whether it decodes, and the number of lines of its text.              *)
(*   miner.ENABLE_RANDOM is the switch of that name in the configuration   *)
(*   section: the file has it on; the code has a branch for either value.  *)
(***************************************************************************)
MIN_LINES == 50
MAX_LINES == 120
LIMIT == 10
RANDOM_POOL_SIZE == 50

File(size, decodes, lines) == [size |-> size, decodes |-> decodes, lines |-> lines]

Repo(listing_raises, files) == [listing_raises |-> listing_raises, files |-> files]

\* the repositories a search can yield
RepoKinds ==
    { Repo(TRUE, <<>>),
      Repo(FALSE, <<File(1000, TRUE, MIN_LINES), File(20000, TRUE, MAX_LINES)>>),
      Repo(FALSE, <<File(1001, FALSE, 0), File(1001, TRUE, MIN_LINES)>>),
      Repo(FALSE, <<File(1001, TRUE, MIN_LINES - 1), File(19999, TRUE, MAX_LINES + 1),
                    File(19999, TRUE, MAX_LINES), File(1001, TRUE, MIN_LINES)>>),
      Repo(FALSE, <<File(1001, TRUE, MIN_LINES), File(1001, FALSE, 0)>>) }

\* the repository of a rank
repo_at(world, rank) == world[((rank - 1) % Len(world)) + 1]

\* for repo in repos: if repo_count >= RANDOM_POOL_SIZE: break; append
RECURSIVE build_pool(_, _, _)
build_pool(repos, candidate_repos, repo_count) ==
    IF repos = <<>> \/ repo_count >= RANDOM_POOL_SIZE THEN candidate_repos
    ELSE build_pool(Tail(repos), Append(candidate_repos, Head(repos)), repo_count + 1)

\* x[i], x[j] = x[j], x[i], the places counted from 1
exchange(x, i, j) == [x EXCEPT ![i] = x[j], ![j] = x[i]]

\* random.shuffle(x) from the place i (counted from 0) down:
\*   for i in reversed(range(1, len(x))):
\*       j = randbelow(i + 1); x[i], x[j] = x[j], x[i]
\* randbelow[i] being what the generator gives for randbelow(i + 1)
RECURSIVE shuffle_from(_, _, _)
shuffle_from(x, randbelow, i) ==
    IF i < 1 THEN x
    ELSE shuffle_from(exchange(x, i + 1, randbelow[i] + 1), randbelow, i - 1)

shuffle(x, randbelow) == shuffle_from(x, randbelow, Len(x) - 1)

\* what the generator can give to the shuffle of a list of n elements:
\* randbelow(i + 1) is any of 0..i, for each place i of 1..n - 1
Generators(n) ==
    { randbelow \in [1..(n - 1) -> 0..(n - 1)] :
        \A i \in 1..(n - 1) : randbelow[i] <= i }

fits_any_line_count(n) == TRUE

\* MIN_LINES <= len(lines) <= MAX_LINES
fits_line_count(n) == MIN_LINES <= n /\ n <= MAX_LINES

\* for file_node in files_to_check, from the k-th file on: the first file of
\* the right size decodes or the repository is given up; the first one with
\* the right number of lines is appended and ends the loop
RECURSIVE check_files(_, _, _, _)
check_files(dataset, rank, files, k) ==
    IF k > Len(files) THEN dataset
    ELSE IF 1000 < files[k].size /\ files[k].size < 20000
         THEN IF ~files[k].decodes THEN dataset
              ELSE IF fits_line_count(files[k].lines)
                   THEN Append(dataset, [repo |-> rank, path |-> k,
                                         line_count |-> files[k].lines])
                   ELSE check_files(dataset, rank, files, k + 1)
         ELSE check_files(dataset, rank, files, k + 1)

\* the body of the loop over candidate_repos, for one repository
mine_repo(dataset, rank, repo) ==
    IF repo.listing_raises THEN dataset
    ELSE check_files(dataset, rank, repo.files, 1)

UnchangedByMiner == UNCHANGED <<ref, hyp, op, out, ocr, libm_rounds_up>>

\* g.search_repositories raises and [] is returned, or the candidate pool is
\* built from its result
SearchRepositories ==
    /\ miner.pc = "search"
    /\ \/ miner' = [miner EXCEPT !.pc = "returned"]
       \/ miner' = [miner EXCEPT !.pc = "shuffle",
                        !.candidate_repos =
                            build_pool([r \in 1..miner.found |-> r], <<>>, 0)]
    /\ UnchangedByMiner

\* if ENABLE_RANDOM: random.shuffle(candidate_repos), with whatever the
\* generator gives; dataset = []
Shuffle ==
    /\ miner.pc = "shuffle"
    /\ \/ /\ miner.ENABLE_RANDOM
          /\ \E randbelow \in Generators(Len(miner.candidate_repos)) :
                miner' = [miner EXCEPT !.pc = "mining",
                                       !.candidate_repos = shuffle(@, randbelow)]
       \/ /\ ~miner.ENABLE_RANDOM
          /\ miner' = [miner EXCEPT !.pc = "mining"]
    /\ UnchangedByMiner

\* one pass of the loop over candidate_repos
MineRepo ==
    /\ miner.pc = "mining"
    /\ miner.processed < Len(miner.candidate_repos)
    /\ Len(miner.dataset) < LIMIT
    /\ LET rank == miner.candidate_repos[miner.processed + 1]
       IN  miner' = [miner EXCEPT
                        !.processed = @ + 1,
                        !.dataset = mine_repo(@, rank, repo_at(miner.world, rank))]
    /\ UnchangedByMiner

\* the loop is over, by the break or at the end of the pool: return dataset
ReturnDataset ==
    /\ miner.pc = "mining"
    /\ \/ miner.processed >= Len(miner.candidate_repos)
       \/ Len(miner.dataset) >= LIMIT
    /\ miner' = [miner EXCEPT !.pc = "returned"]
    /\ UnchangedByMiner

MinerNext == SearchRepositories \/ Shuffle \/ MineRepo \/ ReturnDataset

(***************************************************************************)
(* ocr_and_compare.py: ocr_image                                           *)
(*   A response content is a sequence of characters and box markers, a     *)
(*   marker being one element.  ocr.events lists the API calls and the     *)
(*   sleeps in the order they are made, ocr.responses what each call got.  *)
(***************************************************************************)
begin_of_box == "<|begin_of_box|>"
end_of_box == "<|end_of_box|>"

ResponseAlphabet == {"a", " ", begin_of_box, end_of_box}

\* text.replace(marker, '')
replace(text, marker) == SelectSeq(text, LAMBDA c : c # marker)

\* what client.chat.completions.create does: it raises, or answers with a
\* message whose content is None or a text
Responses ==
    {[kind |-> "raises", content |-> <<>>], [kind |-> "none", content |-> <<>>]}
    \cup {[kind |-> "text", content |-> t] :
             t \in UNION {[1..n -> ResponseAlphabet] : n \in 0..MaxResponseLen}}

\* (resp.choices[0].message.content or "").strip(), the box markers removed
response_text(resp) ==
    LET content == IF resp.kind = "none" THEN <<>> ELSE resp.content
        text == strip(content)
    IN  replace(replace(text, begin_of_box), end_of_box)

sleeps_after_every_attempt(attempt, max_retries) == TRUE

\* if attempt < max_retries - 1: time.sleep(2)
sleeps_after(attempt, max_retries) == attempt < max_retries - 1

\* the events of one failed attempt: the call, and the sleep if one follows
failed_attempt(events, attempt, max_retries) ==
    IF sleeps_after(attempt, max_retries)
    THEN events \o <<"call", "sleep">>
    ELSE Append(events, "call")

\* one pass of the loop body: the call raises, or answers with an empty
\* text, and the loop goes on; or it answers with a text, which is returned
OcrAttempt ==
    /\ ocr.pc = "loop"
    /\ ocr.attempt < ocr.max_retries
    /\ \E resp \in Responses :
          LET text == response_text(resp)
          IN  IF resp.kind # "raises" /\ text # <<>>
              THEN ocr' = [ocr EXCEPT !.pc = "returned",
                                      !.events = Append(@, "call"),
                                      !.responses = Append(@, resp),
                                      !.result = text]
              ELSE ocr' = [ocr EXCEPT !.attempt = @ + 1,
                                      !.events = failed_attempt(@, ocr.attempt,
                                                                ocr.max_retries),
                                      !.responses = Append(@, resp)]
    /\ UNCHANGED <<ref, hyp, op, out, miner, libm_rounds_up>>

\* the loop is over: return ""
OcrFailed ==
    /\ ocr.pc = "loop"
    /\ ocr.attempt >= ocr.max_retries
    /\ ocr' = [ocr EXCEPT !.pc = "returned", !.result = <<>>]
    /\ UNCHANGED <<ref, hyp, op, out, miner, libm_rounds_up>>

OcrNext == OcrAttempt \/ OcrFailed

\* ocr_image entered with some max_retries, before the first pass
InitOcr ==
    /\ ref = <<>>
    /\ hyp = <<>>
    /\ op = "input"
    /\ out = [none |-> TRUE]   \* no metric call is made
    /\ \E m \in 0..MaxRetries :
          ocr = [pc |-> "loop", max_retries |-> m, attempt |-> 0,
                 events |-> <<>>, responses |-> <<>>, result |-> <<>>]
    /\ miner = MinerNotCalled
    /\ libm_rounds_up = {}

SpecOcr == InitOcr /\ [][OcrNext]_vars

\* fetch_fresh_code entered, before the search; the search will yield
\* miner.found repositories, whose contents are miner.world
InitMiner ==
    /\ ref = <<>>
    /\ hyp = <<>>
    /\ op = "input"
    /\ out = [none |-> TRUE]   \* no metric call is made
    /\ ocr = OcrNotCalled
    /\ libm_rounds_up = {}
    /\ \E enable_random \in BOOLEAN, w \in [1..WorldPeriod -> RepoKinds] :
       \E n \in 0..(IF enable_random THEN MaxFoundShuffled ELSE MaxFound) :
          miner = [pc |-> "search", ENABLE_RANDOM |-> enable_random,
                   found |-> n, world |-> w,
                   candidate_repos |-> <<>>, processed |-> 0, dataset |-> <<>>]

SpecMiner == InitMiner /\ [][MinerNext]_vars

(***************************************************************************)
(* The calls.  Each is enabled once per input pair.                        *)
(***************************************************************************)
None == [none |-> TRUE]

Ops == {"input", "levenshtein_distance", "lev_dist", "calculate_cer", "calculate_wer",
        "simple_bleu", "calculate_exact_match_rate", "calculate_metrics", "line_matching"}

Return(name, value) ==
    /\ op = "input"
    /\ op' = name
    /\ out' = value
    /\ UNCHANGED <<ref, hyp, ocr, miner, libm_rounds_up>>

\* levenshtein_distance on the characters and on the words of the two texts
CallLevenshteinDistance ==
    Return("levenshtein_distance",
           [chars |-> levenshtein_distance(ref, hyp),
            words |-> levenshtein_distance(split(ref), split(hyp)),
            chars_swapped |-> levenshtein_distance(hyp, ref),
            words_swapped |-> levenshtein_distance(split(hyp), split(ref))])

\* lev_dist on the characters and on the words of the two texts
CallLevDist ==
    Return("lev_dist",
           [chars |-> lev_dist(ref, hyp),
            words |-> lev_dist(split(ref), split(hyp)),
            chars_swapped |-> lev_dist(hyp, ref),
            words_swapped |-> lev_dist(split(hyp), split(ref))])

CallCalculateCer == Return("calculate_cer", calculate_cer(ref, hyp))

CallCalculateWer == Return("calculate_wer", calculate_wer(ref, hyp))

CallSimpleBleu == Return("simple_bleu", simple_bleu_frame(ref, hyp))

CallCalculateExactMatchRate ==
    Return("calculate_exact_match_rate", calculate_exact_match_rate(ref, hyp))

CallCalculateMetrics == Return("calculate_metrics", calculate_metrics(ref, hyp))

CallLineMatching == Return("line_matching", line_matching(ref, hyp))

Next ==
    \/ CallLevenshteinDistance
    \/ CallLevDist
    \/ CallCalculateCer
    \/ CallCalculateWer
    \/ CallSimpleBleu
    \/ CallCalculateExactMatchRate
    \/ CallCalculateMetrics
    \/ CallLineMatching

InitPair(R, H) ==
    /\ ref \in R
    /\ hyp \in H
    /\ op = "input"
    /\ out = None
    /\ ocr = OcrNotCalled
    /\ miner = MinerNotCalled
    /\ libm_rounds_up = {}

\* every pair of short texts
Init == InitPair(Texts(MaxLen), Texts(MaxLen))

Spec == Init /\ [][Next]_vars

\* a text scored against itself
InitRoundTrip ==
    /\ ref \in Texts(MaxRoundTripLen)
    /\ hyp = ref
    /\ op = "input"
    /\ out = None
    /\ ocr = OcrNotCalled
    /\ miner = MinerNotCalled
    /\ libm_rounds_up = {}

SpecRoundTrip == InitRoundTrip /\ [][Next]_vars

\* the sequences of at most n one-letter words
RECURSIVE WordSeqs(_)
WordSeqs(n) ==
    IF n = 0 THEN {<<>>}
    ELSE LET shorter == WordSeqs(n - 1)
         IN  shorter \cup {Append(t, <<w>>) : t \in {u \in shorter : Len(u) = n - 1},
                                              w \in Vocabulary}

\* every pair of texts of a few words
InitWords == InitPair({Join(ws) : ws \in WordSeqs(MaxWords)},
                      {Join(ws) : ws \in WordSeqs(MaxWords)})

SpecWords == InitWords /\ [][Next]_vars

\* a long reference, the word "a" over and over, and a very short hypothesis
LongText(n) == [i \in 1..(2 * n - 1) |-> IF i % 2 = 1 THEN "a" ELSE " "]

InitLong ==
    InitPair({LongText(n) : n \in MinLongRefWords..MaxLongRefWords},
             {Join(ws) : ws \in WordSeqs(MaxLongHypWords) \ {<<>>}})

\* hypotheses of eight words: a copy of the start of the reference, one
\* whose geometric mean is 1/2, and one whose geometric mean is under 1/2
TinyHyps ==
    { Join([i \in 1..8 |-> <<"a">>]),
      Join([i \in 1..8 |-> IF i = 5 THEN <<"b">> ELSE <<"a">>]),
      Join([i \in 1..8 |-> IF i > 4 THEN <<"b">> ELSE <<"a">>]) }

\* a reference so long that bp is 2 * 2^-1074, 2^-1074 or 0.0; libm rounds
\* either way
InitTiny ==
    /\ ref \in {LongText(n) : n \in MinTinyRefWords..MaxTinyRefWords}
    /\ hyp \in TinyHyps
    /\ op = "input"
    /\ out = None
    /\ ocr = OcrNotCalled
    /\ miner = MinerNotCalled
    /\ libm_rounds_up \in SUBSET {"exp", "geo_mean"}

\* simple_bleu alone, on the texts of a few words and on the long references
SpecBleu == (InitWords \/ InitLong \/ InitTiny) /\ [][CallSimpleBleu]_vars

(***************************************************************************)
(* Properties.                                                             *)
(***************************************************************************)
TypeOK ==
    /\ op \in Ops
    /\ ref \in Seq(Alphabet)
    /\ hyp \in Seq(Alphabet)

\* the textbook edit distance: the least number of insertions, deletions
\* and substitutions of single elements that turn a into b
RECURSIVE EditDistance(_, _)
EditDistance(a, b) ==
    IF a = <<>> THEN Len(b)
    ELSE IF b = <<>> THEN Len(a)
    ELSE IF Head(a) = Head(b) THEN EditDistance(Tail(a), Tail(b))
    ELSE 1 + Min(EditDistance(Tail(a), b),
                 Min(EditDistance(a, Tail(b)), EditDistance(Tail(a), Tail(b))))

Abs(x) == IF x < 0 THEN 0 - x ELSE x

RefWords == split(ref)
HypWords == split(hyp)

\* the score 1.0: brevity penalty 1.0 and the four precisions 1.0
OneScore ==
    [zero |-> FALSE, num |-> 0, den |-> 1, ps |-> [n \in 1..4 |-> <<1, 1>>], scale |-> 1]

IsZeroPercent(p) == ~IsError(p) /\ p.num = 0
IsHundredPercent(p) == ~IsError(p) /\ p.num = 100 * p.den

\* C1: levenshtein_distance, and lev_dist of calculate_metrics, return the
\* least number of single-element insertions, deletions and substitutions
\* that turn the first sequence into the second, on characters and on words,
\* empty sequences included.
C1_LevenshteinIsEditDistance ==
    op \in {"levenshtein_distance", "lev_dist"} =>
        /\ out.chars = EditDistance(ref, hyp)
        /\ out.words = EditDistance(RefWords, HypWords)

\* C1 witness: lev_dist took the operand swap and needed a substitution.
C1_Witness ==
    /\ op = "lev_dist"
    /\ 0 < Len(ref)
    /\ Len(ref) < Len(hyp)
    /\ out.chars > Len(hyp) - Len(ref)
    /\ out.chars < Len(hyp)

\* C2 as stated: every text scored against itself has CER 0, WER 0,
\* BLEU 100 and exact-match rate 100.
C2_RoundTripOfEveryText ==
    hyp = ref =>
        /\ op = "calculate_cer" => ~IsError(out) /\ IsZeroPercent(out.cer)
        /\ op = "calculate_wer" => ~IsError(out) /\ IsZeroPercent(out.wer)
        /\ op = "simple_bleu" => out.result = OneScore
        /\ op = "calculate_exact_match_rate" => ~IsError(out) /\ IsHundredPercent(out.rate)
        /\ op = "calculate_metrics" =>
               /\ ~IsError(out)
               /\ IsZeroPercent(out.cer)
               /\ IsZeroPercent(out.wer)
               /\ out.bleu = Times100(OneScore)
        /\ op = "line_matching" => ~IsError(out) /\ IsHundredPercent(out.emr)

\* C2 amended: a text of at least 4 words scored against itself has CER 0,
\* WER 0, BLEU 100 and exact-match rate 100.  Of the four, CER and the
\* exact-match rate need only a non-empty text and WER only one word.
C2_RoundTripOfFourWords ==
    hyp = ref =>
        /\ op = "calculate_cer" /\ ref # <<>> => ~IsError(out) /\ IsZeroPercent(out.cer)
        /\ op = "calculate_wer" /\ Len(RefWords) >= 1 =>
               ~IsError(out) /\ IsZeroPercent(out.wer)
        /\ op = "simple_bleu" /\ Len(RefWords) >= 4 => out.result = OneScore
        /\ op = "calculate_exact_match_rate" /\ ref # <<>> =>
               ~IsError(out) /\ IsHundredPercent(out.rate)
        /\ op = "calculate_metrics" /\ Len(RefWords) >= 4 =>
               /\ ~IsError(out)
               /\ IsZeroPercent(out.cer)
               /\ IsZeroPercent(out.wer)
               /\ out.bleu = Times100(OneScore)
        /\ op = "line_matching" /\ ref # <<>> => ~IsError(out) /\ IsHundredPercent(out.emr)

\* C2 witness: calculate_metrics returned for a text of 4 words scored
\* against itself.
C2_Witness ==
    /\ op = "calculate_metrics"
    /\ hyp = ref
    /\ Len(RefWords) >= 4
    /\ ~IsError(out)
    /\ out.bleu.scale = 100

\* C3 as stated: when both texts have no line, the exact-match rate is 100
\* and no exception is raised.
C3_NoLinesRateIsHundred ==
    splitlines(ref) = <<>> /\ splitlines(hyp) = <<>> =>
        /\ op = "calculate_exact_match_rate" => ~IsError(out) /\ IsHundredPercent(out.rate)
        /\ op = "line_matching" => ~IsError(out) /\ IsHundredPercent(out.emr)

\* C4: an empty reference (CER) or a reference without a word (WER) ends in
\* ZeroDivisionError and yields no number; a reference with at least one
\* word yields a CER and a WER for every hypothesis, the empty one included.
C4_EmptyReferenceRaises ==
    /\ op = "calculate_cer" =>
           /\ ref = <<>> => IsError(out)
           /\ Len(RefWords) >= 1 => ~IsError(out) /\ out.cer.den > 0 /\ out.cer.num >= 0
    /\ op = "calculate_wer" =>
           /\ RefWords = <<>> => IsError(out)
           /\ Len(RefWords) >= 1 => ~IsError(out) /\ out.wer.den > 0 /\ out.wer.num >= 0
    /\ op = "calculate_metrics" =>
           /\ ref = <<>> \/ RefWords = <<>> => IsError(out)
           /\ Len(RefWords) >= 1 =>
                  /\ ~IsError(out)
                  /\ out.cer.den > 0 /\ out.cer.num >= 0
                  /\ out.wer.den > 0 /\ out.wer.num >= 0

\* C4 witness: calculate_cer raised on an empty reference.
C4_Witness ==
    /\ op = "calculate_cer"
    /\ ref = <<>>
    /\ hyp # <<>>
    /\ IsError(out)

\* C5 as stated: for a non-empty reference the two scripts agree on the
\* character and word edit distances, on BLEU up to the factor 100, and on
\* the exact-match count and rate, whatever the numbers of lines.
C5_ScriptsAgree ==
    ref # <<>> =>
        /\ op = "lev_dist" =>
               /\ out.chars = levenshtein_distance(ref, hyp)
               /\ out.words = levenshtein_distance(RefWords, HypWords)
        /\ op = "calculate_metrics" /\ ~IsError(out) =>
               /\ SamePercent(out.cer, calculate_cer(ref, hyp).cer)
               /\ SamePercent(out.wer, calculate_wer(ref, hyp).wer)
               /\ out.bleu = Times100(simple_bleu(ref, hyp))
        /\ op = "line_matching" =>
               LET emr == calculate_exact_match_rate(ref, hyp)
               IN  /\ ~IsError(out)
                   /\ out.matches = emr.matches
                   /\ out.total = emr.max_len
                   /\ SamePercent(out.emr, emr.rate)

\* C6: levenshtein_distance(a, b) = levenshtein_distance(b, a), on characters
\* and on words, whichever operand is the longer.
C6_LevenshteinSymmetric ==
    op = "levenshtein_distance" =>
        /\ out.chars = out.chars_swapped
        /\ out.words = out.words_swapped

\* C6 witness: two different texts of the same length, so that neither call
\* is the operand swap of the other.
C6_Witness ==
    /\ op = "levenshtein_distance"
    /\ Len(ref) = Len(hyp)
    /\ Len(ref) >= 2
    /\ out.chars = 1
    /\ out.chars_swapped = 1

\* C7: abs(len(a) - len(b)) <= levenshtein_distance(a, b) <= max(len(a),
\* len(b)); the distance from the empty sequence to a sequence of length n
\* is n; the distance is never negative.
C7_LevenshteinBounded ==
    op = "levenshtein_distance" =>
        /\ Abs(Len(ref) - Len(hyp)) <= out.chars
        /\ out.chars <= Max(Len(ref), Len(hyp))
        /\ Abs(Len(RefWords) - Len(HypWords)) <= out.words
        /\ out.words <= Max(Len(RefWords), Len(HypWords))
        /\ ref = <<>> => out.chars = Len(hyp)
        /\ RefWords = <<>> => out.words = Len(HypWords)
        /\ out.chars >= 0 /\ out.words >= 0

\* C7 witness: the distance lies strictly between the two bounds.
C7_Witness ==
    /\ op = "levenshtein_distance"
    /\ Abs(Len(ref) - Len(hyp)) < out.chars
    /\ out.chars < Max(Len(ref), Len(hyp))
    /\ Len(ref) # Len(hyp)

\* C8: the BLEU of a text of at least 4 words against itself is exactly 1.0,
\* the four precisions and the brevity penalty being 1, and 100 as
\* calculate_metrics scales it.
C8_BleuOfItselfIsOne ==
    hyp = ref /\ Len(RefWords) >= 4 =>
        /\ op = "simple_bleu" =>
               /\ out.result = OneScore
               /\ out.bp = One
               /\ \A n \in 1..4 : out.precisions[n].matches = out.precisions[n].total
               /\ \A n \in 1..4 : out.precisions[n].total = Len(RefWords) - n + 1
        /\ op = "calculate_metrics" =>
               /\ ~IsError(out)
               /\ out.bleu = Times100(OneScore)
               /\ out.bp = One
               /\ \A n \in 1..4 : out.precisions[n].matches = out.precisions[n].total

\* C8 witness: simple_bleu returned for a text of 5 words, a word repeated,
\* scored against itself.
C8_Witness ==
    /\ op = "simple_bleu"
    /\ hyp = ref
    /\ Len(RefWords) = 5
    /\ RefWords[1] = RefWords[3]
    /\ RefWords[1] # RefWords[2]
    /\ ~out.result.zero

\* C9 as stated: for a hypothesis without a word and any non-empty
\* reference, both scripts give BLEU 0, and the brevity penalty is never
\* computed with len(hyp_words) = 0.
C9_EmptyHypothesisBleuZero ==
    HypWords = <<>> /\ ref # <<>> =>
        /\ op = "simple_bleu" => out.result = ZeroScore /\ out.bp = Unevaluated
        /\ op = "calculate_metrics" =>
               ~IsError(out) /\ out.bleu = ZeroScore /\ out.bp = Unevaluated

\* C9 amended: for a hypothesis without a word, simple_bleu returns 0 for
\* every reference, and calculate_metrics gives BLEU 0 for every reference
\* with at least one word (on a reference without a word it raises
\* ZeroDivisionError at the WER); in both, the brevity penalty is never
\* computed with len(hyp_words) = 0.
C9_EmptyHypothesisBleuZeroGivenWord ==
    HypWords = <<>> =>
        /\ op = "simple_bleu" => out.result = ZeroScore /\ out.bp = Unevaluated
        /\ op = "calculate_metrics" =>
               /\ metrics_bleu(RefWords, HypWords).bleu = ZeroScore
               /\ metrics_bleu(RefWords, HypWords).bp = Unevaluated
               /\ Len(RefWords) >= 1 =>
                      ~IsError(out) /\ out.bleu = ZeroScore /\ out.bp = Unevaluated
               /\ RefWords = <<>> => IsError(out)

\* C9 witness: calculate_metrics returned for a reference with a word and a
\* hypothesis of white space only.
C9_Witness ==
    /\ op = "calculate_metrics"
    /\ hyp # <<>>
    /\ HypWords = <<>>
    /\ Len(RefWords) >= 1
    /\ ~IsError(out)

\* what C10 says of the precisions and of the score
BleuPrecisionsAndScoreOK ==
    /\ \A n \in 1..4 :
           /\ 0 <= out.precisions[n].matches
           /\ out.precisions[n].matches <= out.precisions[n].total
           /\ out.precisions[n].total = Max(0, Len(HypWords) - n + 1)
    /\ ~IsError(out.result)
    /\ out.result.zero \/ (out.result.scale = 1 /\ out.result.num <= 0
                           /\ \A n \in 1..4 : out.result.ps[n][1] <= out.result.ps[n][2])
    /\ (\E n \in 1..4 : out.precisions[n].matches = 0) => out.result = ZeroScore
    /\ Len(HypWords) < 4 => out.result = ZeroScore

\* C10 as stated: the score is in [0, 1], each precision has 0 <= clipped
\* matches <= total, the brevity penalty is in (0, 1], and the score is 0
\* when a precision is 0, as it is for a hypothesis of fewer than 4 words.
C10_BleuInUnitInterval ==
    op = "simple_bleu" /\ HypWords # <<>> =>
        /\ BleuPrecisionsAndScoreOK
        /\ ~out.bp.zero /\ out.bp.num <= 0

\* C10 amended: as stated, but the brevity penalty is in [0, 1]: it is in
\* (0, 1] when the reference has at most 746 times the words of the
\* hypothesis, and beyond that math.exp can underflow to 0.0 (as can the
\* product bp * geo_mean, which leaves the score in [0, 1]).
C10_BleuInUnitIntervalBpMayUnderflow ==
    op = "simple_bleu" /\ HypWords # <<>> =>
        /\ BleuPrecisionsAndScoreOK
        /\ out.bp.num <= 0
        /\ Len(RefWords) <= 746 * Len(HypWords) => ~out.bp.zero

\* C10 witness: a score strictly between 0 and 1, the hypothesis shorter
\* than the reference.
C10_Witness ==
    /\ op = "simple_bleu"
    /\ HypWords # <<>>
    /\ ~out.result.zero
    /\ out.bp.num < 0
    /\ out.result.num = out.bp.num

\* the product of a brevity penalty and a geometric mean that are both
\* positive underflows to the score 0.0
C10_WitnessProductUnderflow ==
    /\ op = "simple_bleu"
    /\ HypWords # <<>>
    /\ ~out.bp.zero
    /\ \A n \in 1..4 : out.precisions[n].matches > 0
    /\ out.result = ZeroScore

\* the line of index i, the empty line when lines has no such index
LineOrEmpty(lines, i) == IF i \in DOMAIN lines THEN lines[i] ELSE <<>>

\* the index positions 1..max(len) at which the two stripped lines are equal
MatchingPositions(ref_lines, hyp_lines) ==
    {i \in 1..Max(Len(ref_lines), Len(hyp_lines)) :
        strip(LineOrEmpty(ref_lines, i)) = strip(LineOrEmpty(hyp_lines, i))}

\* the count, the number of compared lines and the rate that the rule of
\* index positions gives, against what a call returned
ByIndexPositions(count, compared, rate) ==
    /\ count = Cardinality(MatchingPositions(splitlines(ref), splitlines(hyp)))
    /\ compared = Max(Len(splitlines(ref)), Len(splitlines(hyp)))
    /\ count <= compared
    /\ rate = Percent(count, compared)

\* C11 as stated: in both scripts the exact-match count is the number of
\* index positions below max(len(ref_lines), len(hyp_lines)) whose stripped
\* lines are equal, a missing line counting as empty; the number of compared
\* lines is that maximum, the count is at most it, and the rate is
\* count / compared * 100.
C11_ExactMatchByIndexPositions ==
    /\ op = "calculate_exact_match_rate" /\ ~IsError(out) =>
           ByIndexPositions(out.matches, out.max_len, out.rate)
    /\ op = "line_matching" /\ ~IsError(out) =>
           ByIndexPositions(out.matches, out.total, out.emr)

\* C11 for calculate_exact_match_rate alone, which does follow the rule
C11_AnalyzeByIndexPositions ==
    op = "calculate_exact_match_rate" /\ ~IsError(out) =>
        ByIndexPositions(out.matches, out.max_len, out.rate)

\* the attempt that got resp raised an exception or produced an empty text
AttemptFailed(resp) == resp.kind = "raises" \/ response_text(resp) = <<>>

\* the API calls made so far
ApiCalls == Len(SelectSeq(ocr.events, LAMBDA e : e = "call"))

\* every sleep made so far stands between two API calls: the call before it
\* is made, and the call after it is made or, the loop still running, is the
\* next thing to happen
SleepsOnlyBetweenAttempts ==
    \A k \in DOMAIN ocr.events :
        ocr.events[k] = "sleep" =>
            /\ k > 1 /\ ocr.events[k - 1] = "call"
            /\ IF k < Len(ocr.events) THEN ocr.events[k + 1] = "call"
               ELSE ocr.pc = "loop" /\ ocr.attempt < ocr.max_retries

\* C12: ocr_image terminates after at most max_retries API calls (a run that
\* has not returned can always take a step, and each step returns or makes
\* one more of the at most max_retries calls); it stops at the first call
\* whose stripped, unboxed response is non-empty and returns that text with
\* no call or sleep after it; it returns the empty string exactly when all
\* max_retries attempts raised or produced an empty text; and every sleep
\* stands between two attempts, none after the last.
C12_OcrImageRetries ==
    LET n == Len(ocr.responses)
    IN  ocr.pc # "not_called" =>
            /\ ApiCalls = n
            /\ n <= ocr.max_retries
            /\ \A k \in 1..(n - 1) : AttemptFailed(ocr.responses[k])
            /\ ocr.pc = "loop" =>
                   /\ ENABLED OcrNext
                   /\ ocr.attempt = n
                   /\ \A k \in 1..n : AttemptFailed(ocr.responses[k])
            /\ ocr.pc = "returned" /\ ocr.result # <<>> =>
                   /\ n >= 1
                   /\ ~AttemptFailed(ocr.responses[n])
                   /\ ocr.result = response_text(ocr.responses[n])
                   /\ ocr.events[Len(ocr.events)] = "call"
            /\ ocr.pc = "returned" =>
                   (ocr.result = <<>> <=>
                        /\ n = ocr.max_retries
                        /\ \A k \in 1..n : AttemptFailed(ocr.responses[k]))
            /\ SleepsOnlyBetweenAttempts

\* the third of three attempts succeeds, after an exception and a text that
\* is empty once unboxed, each followed by a sleep
C12_Witness ==
    /\ ocr.pc = "returned"
    /\ ocr.max_retries = 3
    /\ Len(ocr.responses) = 3
    /\ ocr.responses[1].kind = "raises"
    /\ ocr.responses[2] = [kind |-> "text", content |-> <<begin_of_box>>]
    /\ ocr.result = <<"a">>
    /\ ocr.events = <<"call", "sleep", "call", "sleep", "call">>

\* all three attempts fail and the empty string is returned after the third
\* call, with no sleep after it
C12_WitnessAllFailed ==
    /\ ocr.pc = "returned"
    /\ ocr.max_retries = 3
    /\ ocr.result = <<>>
    /\ ocr.events = <<"call", "sleep", "call", "sleep", "call">>

\* the candidate repositories whose pass of the mining loop is over
ProcessedRepos == {miner.candidate_repos[k] : k \in 1..miner.processed}

\* C13: in fetch_fresh_code, after any number of candidate repositories
\* processed, repositories whose listing or decoding raises included, the
\* dataset holds at most LIMIT entries and at most one entry per candidate
\* repository (each of a repository already processed), the candidate pool
\* holds at most RANDOM_POOL_SIZE repositories, and every entry's
\* line_count is within MIN_LINES..MAX_LINES.
C13_DatasetAndPoolBounded ==
    miner.pc # "not_called" =>
        /\ Len(miner.dataset) <= LIMIT
        /\ \A i, j \in DOMAIN miner.dataset :
               miner.dataset[i].repo = miner.dataset[j].repo => i = j
        /\ \A i \in DOMAIN miner.dataset : miner.dataset[i].repo \in ProcessedRepos
        /\ Len(miner.candidate_repos) <= RANDOM_POOL_SIZE
        /\ \A i \in DOMAIN miner.dataset :
               /\ MIN_LINES <= miner.dataset[i].line_count
               /\ miner.dataset[i].line_count <= MAX_LINES

\* the search yields more than RANDOM_POOL_SIZE repositories, kept in the
\* order of the search (ENABLE_RANDOM is off); every other one raises while
\* its contents are listed, and the others give an entry of MAX_LINES
\* lines, until the dataset is full after 2 * LIMIT - 1 passes
C13_Witness ==
    /\ miner.pc = "returned"
    /\ ~miner.ENABLE_RANDOM
    /\ miner.found > RANDOM_POOL_SIZE
    /\ Len(miner.candidate_repos) = RANDOM_POOL_SIZE
    /\ miner.world[2].listing_raises
    /\ Len(miner.dataset) = LIMIT
    /\ miner.processed = 2 * LIMIT - 1
    /\ miner.processed < Len(miner.candidate_repos)
    /\ \A i \in DOMAIN miner.dataset : miner.dataset[i].line_count = MAX_LINES

\* ENABLE_RANDOM is on and the shuffle leaves the pool in the reverse of the
\* order of the search; the repositories of odd rank raise while their
\* contents are listed and the others give an entry each
C13_WitnessShuffled ==
    /\ miner.pc = "returned"
    /\ miner.ENABLE_RANDOM
    /\ miner.found > 3
    /\ \A i \in DOMAIN miner.candidate_repos :
          miner.candidate_repos[i] = miner.found + 1 - i
    /\ miner.world[1].listing_raises
    /\ miner.processed = Len(miner.candidate_repos)
    /\ Len(miner.dataset) = miner.found \div 2
    /\ \A i \in DOMAIN miner.dataset :
          miner.dataset[i].repo = 2 * (Len(miner.dataset) + 1 - i)

\* the whole pool is processed and the dataset is not full: the
\* repositories of even rank have a file that does not decode
C13_WitnessPoolExhausted ==
    /\ miner.pc = "returned"
    /\ miner.processed = Len(miner.candidate_repos)
    /\ Len(miner.dataset) < LIMIT
    /\ Len(miner.dataset) > 0
    /\ \E k \in DOMAIN miner.world :
          ~miner.world[k].listing_raises /\ miner.world[k].files # <<>>
              /\ ~miner.world[k].files[1].decodes

====
